---- MODULE Spec2Model ----
(***************************************************************************)
(* A model of endaq.batch.calc: the GetDataBuilder configuration object,   *)
(* the per-recording extraction (_get_data and the _make_* formatters),    *)
(* the cross-recording aggregation (aggregate_data), the peak-window       *)
(* extraction (_make_peak_windows) and the exports of the OutputStruct.     *)
(*                                                                         *)
(* Python values are modelled as tagged records: None, rational numbers    *)
(* (floats and ints, kept exact) and strings.  Tables (pandas Series and   *)
(* DataFrames) are modelled as a sequence of column/level names plus a     *)
(* sequence of rows.                                                       *)
(***************************************************************************)
EXTENDS Integers, Sequences, FiniteSets, TLC

\* ------------------------------------------------------------------ bounds

\* Longest list of recording identifiers handed to aggregate_data.
MaxFiles == 2
\* Longest acceleration trace and largest half-width explored for
\* _make_peak_windows.
MaxLen == 3
MaxMargin == 3

\* --------------------------------------------------------- Python values

None == [tag |-> "None"]

RECURSIVE Gcd(_, _)
Gcd(a, b) == IF b = 0 THEN a ELSE Gcd(b, a % b)

\* A number n/d, kept in lowest terms so that equal values are equal records.
Num(n, d) == [tag |-> "num", num |-> n \div Gcd(n, d), den |-> d \div Gcd(n, d)]

PyInt(n) == Num(n, 1)

Str(s) == [tag |-> "str", s |-> s]

\* Python's a / b on two numbers.
Div(a, b) == Num(a.num * b.den, a.den * b.num)

\* ------------------------------------------------------------ the builder

Kinds == {"psd", "pvss", "metrics", "peaks", "vc_curves"}

VARIABLES
    self,          \* the GetDataBuilder: its request queue and parameters
    pc,            \* "new", "build", "extract", "with", "done" or "raised"
    filenames,     \* the argument of aggregate_data
    extracted,     \* the _get_data results collected so far, in call order
    processed,     \* the identifiers _get_data was called with, in call order
    output,        \* the OutputStruct's dataframes: a sequence of <<key, table>>
    last,          \* the last call made on the builder and how it ended
    pk,            \* the state of one _make_peak_windows call
    opened,        \* the recordings idelib.importFile has open
    written,       \* the files the OutputStruct has written
    calls          \* history: per kind, the arguments of its last add_* call
                   \* that returned, None without one

vars ==
    <<self, pc, filenames, extracted, processed, output, last, pk,
      opened, written, calls>>

\* dict insertion: a new key goes last, an existing key keeps its place.
InQueue(q, k) == \E i \in 1..Len(q) : q[i] = k

\* A variant of DictSet that moves an existing key to the end.
DictSetMovesToEnd(q, k) == Append(SelectSeq(q, LAMBDA x : x # k), k)

DictSet(q, k) == IF InQueue(q, k) THEN q ELSE Append(q, k)

\* The keyword arguments of the constructor when none of the four bounds of
\* the acceleration window is given.
DefaultKwargs ==
    [ preferred_chs |-> << >>,
      accel_highpass_cutoff |-> [tag |-> "num", num |-> 1, den |-> 1],
      accel_start_time |-> None,
      accel_end_time |-> None,
      accel_start_margin |-> None,
      accel_end_margin |-> None ]

SelfInit ==
    [ metrics_queue |-> << >>,
      analyzer_kwargs |-> DefaultKwargs,
      psd_freq_bin_width |-> None,
      psd_freq_start_octave |-> None,
      psd_bins_per_octave |-> None,
      psd_window |-> None,
      pvss_init_freq |-> None,
      pvss_bins_per_octave |-> None,
      peak_window_margin_len |-> None,
      vc_init_freq |-> None,
      vc_bins_per_octave |-> None ]

\* int(5 / (2 ** (1 / (2 * b)) - 2 ** (-1 / (2 * b)))) for the octave
\* densities the model supplies:
\*   b = 1 : 5 / 0.707107 = 7.07;  b = 3 : 5 / 0.231563 = 21.59;
\*   b = 12: 5 / 0.057770 = 86.55
OctaveBinDivisor(b) ==
    CASE b = PyInt(1) -> PyInt(7)
      [] b = PyInt(3) -> PyInt(21)
      [] b = PyInt(12) -> PyInt(86)

\* The arguments the model passes to the add_* methods.
PsdArgs ==
    { [freq_bin_width |-> PyInt(1), freq_start_octave |-> None,
       bins_per_octave |-> None, window |-> Str("boxcar")],
      [freq_bin_width |-> None, freq_start_octave |-> None,
       bins_per_octave |-> PyInt(3), window |-> Str("hanning")],
      [freq_bin_width |-> None, freq_start_octave |-> None,
       bins_per_octave |-> None, window |-> Str("hanning")] }
PvssInitFreqs == {PyInt(2)}
PvssBinsPerOctave == {PyInt(6)}
PeakMargins == {PyInt(0), PyInt(1)}
VcInitFreqs == {PyInt(1)}
VcBinsPerOctave == {PyInt(3)}

\* How the last call on the builder ended.
Returned(op) == "returned"

\* The arguments of a call that takes none.
NoArgs == [tag |-> "no arguments"]

\* No add_* call has returned yet.
NoCalls == [psd |-> None, pvss |-> None, metrics |-> None, peaks |-> None,
            vc_curves |-> None]

Raised(op, exc) == exc

\* The name GetDataBuilder(...) is bound to before the constructor returns.
NoBuilder == [tag |-> "no builder"]

\* The combinations of the four bounds of the acceleration window: each is
\* left out (None) or given.
WindowBounds == {None, PyInt(1)}

CtorKwargs ==
    { [DefaultKwargs EXCEPT !.accel_start_time = st, !.accel_end_time = et,
                            !.accel_start_margin = sm, !.accel_end_margin = em] :
          st \in WindowBounds, et \in WindowBounds,
          sm \in WindowBounds, em \in WindowBounds }

\* A variant of the constructor's test that only looks at the start edge.
KwargsConflictStartOnly(kwargs) ==
    kwargs.accel_start_time # None /\ kwargs.accel_start_margin # None

\* The two tests the constructor raises on.
KwargsConflict(kwargs) ==
    \/ kwargs.accel_start_time # None /\ kwargs.accel_start_margin # None
    \/ kwargs.accel_end_time # None /\ kwargs.accel_end_margin # None

\* GetDataBuilder(**kwargs): raises before any attribute is set, or leaves a
\* builder with an empty queue and every parameter None.
__init__(kwargs) ==
    /\ pc = "new"
    /\ IF KwargsConflict(kwargs)
       THEN /\ pc' = "raised"
            /\ last' = Raised("__init__", "ValueError")
            /\ UNCHANGED self
       ELSE /\ pc' = "build"
            /\ self' = [SelfInit EXCEPT !.analyzer_kwargs = kwargs]
            /\ last' = Returned("__init__")
    /\ UNCHANGED <<filenames, extracted, processed, output, pk, opened, written, calls>>

\* The width add_psd stores: the one given, or the one derived from the
\* octave density and the starting frequency.
PsdStartOctave(freq_bin_width, freq_start_octave) ==
    IF freq_bin_width = None /\ freq_start_octave = None
    THEN PyInt(1)
    ELSE freq_start_octave

PsdBinWidth(freq_bin_width, freq_start_octave, bins_per_octave) ==
    IF freq_bin_width = None
    THEN Div(PsdStartOctave(freq_bin_width, freq_start_octave),
             OctaveBinDivisor(bins_per_octave))
    ELSE freq_bin_width

\* A variant of add_psd that registers the kind before it tests its arguments.
PsdQueuedThenRaised(b) == [b EXCEPT !.metrics_queue = DictSet(@, "psd")]

\* The builder when add_psd raises: the test of lines 312-315 comes before
\* every assignment.
PsdRaised(b) == b

add_psd(freq_bin_width, freq_start_octave, bins_per_octave, window) ==
    /\ pc = "build"
    /\ IF freq_bin_width = None /\ bins_per_octave = None
       THEN /\ last' = Raised("add_psd", "ValueError")
            /\ self' = PsdRaised(self)
            /\ UNCHANGED calls
       ELSE /\ self' = [self EXCEPT
                 !.metrics_queue = DictSet(@, "psd"),
                 !.psd_freq_bin_width =
                     PsdBinWidth(freq_bin_width, freq_start_octave, bins_per_octave),
                 !.psd_freq_start_octave =
                     PsdStartOctave(freq_bin_width, freq_start_octave),
                 !.psd_bins_per_octave = bins_per_octave,
                 !.psd_window = window]
            /\ last' = Returned("add_psd")
            /\ calls' = [calls EXCEPT !.psd =
                  [freq_bin_width |-> freq_bin_width,
                   freq_start_octave |-> freq_start_octave,
                   bins_per_octave |-> bins_per_octave, window |-> window]]
    /\ UNCHANGED <<pc, filenames, extracted, processed, output, pk, opened, written>>

add_pvss(init_freq, bins_per_octave) ==
    /\ pc = "build"
    /\ self' = [self EXCEPT
          !.metrics_queue = DictSet(@, "pvss"),
          !.pvss_init_freq = init_freq,
          !.pvss_bins_per_octave = bins_per_octave]
    /\ last' = Returned("add_pvss")
    /\ calls' = [calls EXCEPT !.pvss =
          [init_freq |-> init_freq, bins_per_octave |-> bins_per_octave]]
    /\ UNCHANGED <<pc, filenames, extracted, processed, output, pk, opened, written>>

\* Variants of the two seeding tests that seed whatever is queued.
MetricsAlwaysSeedsPvss(q) == TRUE

\* A variant of add_metrics' seeding test that never seeds.
MetricsNeverSeedsPvss(q) == FALSE

VcAlwaysSeedsPsd(q) == TRUE

\* The defaults add_metrics and add_vc_curves seed for a kind not queued.
PvssDefaultInitFreq == 1
PvssDefaultBinsPerOctave == 12
PsdDefaultBinWidth == Num(2, 10)
PsdDefaultWindow == Str("hanning")

MetricsSeedsPvss(q) == ~InQueue(q, "pvss")

add_metrics ==
    /\ pc = "build"
    /\ LET q == DictSet(self.metrics_queue, "metrics")
       IN  self' = [self EXCEPT
              !.metrics_queue = q,
              !.pvss_init_freq =
                  IF MetricsSeedsPvss(q) THEN PyInt(PvssDefaultInitFreq) ELSE @,
              !.pvss_bins_per_octave =
                  IF MetricsSeedsPvss(q) THEN PyInt(PvssDefaultBinsPerOctave) ELSE @]
    /\ last' = Returned("add_metrics")
    /\ calls' = [calls EXCEPT !.metrics = NoArgs]
    /\ UNCHANGED <<pc, filenames, extracted, processed, output, pk, opened, written>>

add_peaks(margin_len) ==
    /\ pc = "build"
    /\ self' = [self EXCEPT
          !.metrics_queue = DictSet(@, "peaks"),
          !.peak_window_margin_len = margin_len]
    /\ last' = Returned("add_peaks")
    /\ calls' = [calls EXCEPT !.peaks = [margin_len |-> margin_len]]
    /\ UNCHANGED <<pc, filenames, extracted, processed, output, pk, opened, written>>

VcSeedsPsd(q) == ~InQueue(q, "psd")

add_vc_curves(init_freq, bins_per_octave) ==
    /\ pc = "build"
    /\ LET q == DictSet(self.metrics_queue, "vc_curves")
       IN  self' = [self EXCEPT
              !.metrics_queue = q,
              !.psd_freq_bin_width =
                  IF VcSeedsPsd(q) THEN PsdDefaultBinWidth ELSE @,
              !.psd_window = IF VcSeedsPsd(q) THEN PsdDefaultWindow ELSE @,
              !.vc_init_freq = init_freq,
              !.vc_bins_per_octave = bins_per_octave]
    /\ last' = Returned("add_vc_curves")
    /\ calls' = [calls EXCEPT !.vc_curves =
          [init_freq |-> init_freq, bins_per_octave |-> bins_per_octave]]
    /\ UNCHANGED <<pc, filenames, extracted, processed, output, pk, opened, written>>

\* ------------------------------------------------------ _make_peak_windows

\* The missing-value sentinel np.nan; no sample of the model has this value.
NaN == -999

Abs(x) == IF x < 0 THEN -x ELSE x

\* A variant of ArgMaxAbs that returns the last index of the largest magnitude.
ArgMaxAbsLast(row) ==
    CHOOSE i \in 0..(Len(row) - 1) :
        /\ \A k \in 0..(Len(row) - 1) : Abs(row[k + 1]) <= Abs(row[i + 1])
        /\ \A k \in (i + 1)..(Len(row) - 1) : Abs(row[k + 1]) < Abs(row[i + 1])

\* np.argmax(np.abs(row)): the first (0-based) index of the largest magnitude.
ArgMaxAbs(row) ==
    CHOOSE i \in 0..(Len(row) - 1) :
        /\ \A k \in 0..(Len(row) - 1) : Abs(row[k + 1]) <= Abs(row[i + 1])
        /\ \A k \in 0..(i - 1) : Abs(row[k + 1]) < Abs(row[i + 1])

\* How Python resolves one bound of a slice of a sequence of length n:
\* a negative bound counts from the end, and the result is clipped to 0..n.
SliceBound(i, n) ==
    IF i < 0
    THEN (IF i + n < 0 THEN 0 ELSE i + n)
    ELSE (IF i > n THEN n ELSE i)

\* The 0-based positions start..stop-1 a slice [start:stop] selects.
SliceRange(start, stop, n) ==
    LET lo == SliceBound(start, n)
        hi == SliceBound(stop, n)
    IN  [lo |-> lo, len |-> IF hi > lo THEN hi - lo ELSE 0]

\* A variant of DstSlice whose start is one row late.
DstSliceShifted(i_max, margin_len, n) ==
    SliceRange(-margin_len - i_max, margin_len - (i_max - n), 2 * margin_len + 1)

\* The destination rows of result_data and the source samples of data that
\* the loop body names for a peak at i_max in a trace of n samples.
DstSlice(i_max, margin_len, n) ==
    SliceRange(-margin_len - 1 - i_max, margin_len - (i_max - n), 2 * margin_len + 1)

SrcSlice(i_max, margin_len, n) ==
    SliceRange((i_max - n) - margin_len, i_max + margin_len + 1, n)

\* numpy's slice assignment: equal lengths copy, a single source value is
\* broadcast, anything else raises ValueError.
CanAssign(dst, src) == dst.len = src.len \/ src.len = 1

\* One column of result_data after result_data[dst, j] = data[j, src].
AssignWindow(column, row, dst, src) ==
    << >> \o
    [r \in 1..Len(column) |->
        IF r - 1 >= dst.lo /\ r - 1 < dst.lo + dst.len
        THEN (IF src.len = 1 /\ dst.len # 1
              THEN row[src.lo + 1]
              ELSE row[src.lo + (r - 1 - dst.lo) + 1])
        ELSE column[r]]

\* np.full((window_len, channels), np.nan), held column by column.
FullNaN(window_len, channels) ==
    << >> \o [j \in 1..channels |-> << >> \o [r \in 1..window_len |-> NaN]]

\* The rows of the returned Series: DataFrame(result_data, index = offsets,
\* columns = (axis, peak time)) stacked twice.  stack() drops missing values,
\* so a row exists for a cell of result_data exactly when the cell is not NaN.
StackCells(result_data, axes, peak_times, margin_len, dt) ==
    LET channels == Len(axes)
        cells == [cell \in 1..((2 * margin_len + 1) * channels) |->
                    LET r == ((cell - 1) \div channels) + 1
                        j == ((cell - 1) % channels) + 1
                    IN  [idx |-> <<axes[j], peak_times[j], dt * (r - 1 - margin_len)>>,
                         value |-> result_data[j][r]]]
    IN  SelectSeq(cells, LAMBDA x : x.value # NaN)

\* The level order of the stacks before reorder_levels.
PeakNamesAsStacked == <<"peak offset", "axis", "peak time">>

\* reorder_levels(["axis", "peak time", "peak offset"])
PeakNames == <<"axis", "peak time", "peak offset">>

\* Integer square root, for the Euclidean norm the analyzer computes.
ISqrt(n) == CHOOSE r \in 0..n : r * r <= n /\ (r + 1) * (r + 1) > n

RECURSIVE SumSquares(_, _, _)
SumSquares(rows, i, k) ==
    IF k = 0 THEN 0 ELSE rows[k][i] * rows[k][i] + SumSquares(rows, i, k - 1)

\* analyzer._accelerationResultant: the per-sample norm over the axes.
Resultant(rows) ==
    << >> \o [i \in 1..Len(rows[1]) |-> ISqrt(SumSquares(rows, i, Len(rows)))]

\* The sampling interval and a session's first timestamp, in microseconds;
\* sample i of a trace is stamped firstTime + i * SamplePeriod.
SamplePeriod == 10

Timestamps(firstTime, n) == << >> \o [i \in 1..n |-> firstTime + (i - 1) * SamplePeriod]

\* What _make_peak_windows reads from the analyzer: the "acc" channel (or
\* None), the acceleration trace per axis, its timestamps.
Facade(axis_names, rows, firstTime) ==
    [ acc |-> TRUE,
      axis_names |-> axis_names,
      accelerationData |-> rows,
      accelerationResultant |-> Resultant(rows),
      times |-> Timestamps(firstTime, Len(rows[1])),
      firstTime |-> firstTime ]

NoAccFacade(firstTime) ==
    [ acc |-> FALSE, axis_names |-> << >>, accelerationData |-> << >>,
      accelerationResultant |-> << >>, times |-> << >>, firstTime |-> firstTime ]

\* data = concatenate([_accelerationData, _accelerationResultant[None]]).
PeakData(analyzer) ==
    Append(analyzer.accelerationData, analyzer.accelerationResultant)

\* t = arraySlice()[0] - firstTime, taken at each channel's peak.
PeakTimes(analyzer, i_max) ==
    << >> \o [j \in 1..Len(i_max) |-> analyzer.times[i_max[j] + 1] - analyzer.firstTime]

PeakAxes(analyzer) == Append(analyzer.axis_names, "Resultant")

\* ---------------------------------------------------------------- _make_meta

MicrosPerSecond == 1000000

\* np.datetime64(utcStartTime, "s") + np.timedelta64(firstTime, "us"),
\* in microseconds.
MetaStartTime(ds) == ds.utcStartTime * MicrosPerSecond + ds.firstTime

NoName == "(none)"

\* The Series [serial_no, start_time] indexed "serial number", "start time".
MakeMeta(ds) ==
    [names |-> <<NoName>>,
     rows |-> << [idx |-> <<"serial number">>, value |-> ds.RecorderSerial],
                 [idx |-> <<"start time">>, value |-> MetaStartTime(ds)] >>]

PkIdle == [pcp |-> "idle"]

\* The call's locals once the buffers are set up (lines 134-148).
PeakBegin ==
    /\ pk.pcp = "start"
    /\ IF ~pk.analyzer.acc
       THEN pk' = [pk EXCEPT !.pcp = "done", !.result = None]
       ELSE LET data == PeakData(pk.analyzer)
            IN  pk' = [pk EXCEPT
                   !.pcp = "loop",
                   !.data = data,
                   !.i_max = << >> \o [c \in 1..Len(data) |-> ArgMaxAbs(data[c])],
                   !.result_data = FullNaN(2 * pk.margin_len + 1, Len(data)),
                   !.j = 0]
    /\ UNCHANGED <<self, pc, filenames, extracted, processed, output, last,
                   opened, written, calls>>

\* One pass of the loop over the channels (lines 149-152).
PeakCopy ==
    /\ pk.pcp = "loop"
    /\ pk.j < Len(pk.data)
    /\ LET c == pk.j + 1
           n == Len(pk.data[c])
           dst == DstSlice(pk.i_max[c], pk.margin_len, n)
           src == SrcSlice(pk.i_max[c], pk.margin_len, n)
       IN  IF CanAssign(dst, src)
           THEN pk' = [pk EXCEPT
                   !.result_data[c] = AssignWindow(@, pk.data[c], dst, src),
                   !.j = @ + 1]
           ELSE pk' = [pk EXCEPT !.pcp = "raised"]
    /\ UNCHANGED <<self, pc, filenames, extracted, processed, output, last,
                   opened, written, calls>>

\* The formatting of the result (lines 155-175).
PeakFormat ==
    /\ pk.pcp = "loop"
    /\ pk.j = Len(pk.data)
    /\ pk' = [pk EXCEPT
          !.pcp = "done",
          !.result =
              [names |-> PeakNames,
               rows |-> StackCells(pk.result_data, PeakAxes(pk.analyzer),
                                   PeakTimes(pk.analyzer, pk.i_max),
                                   pk.margin_len, SamplePeriod)]]
    /\ UNCHANGED <<self, pc, filenames, extracted, processed, output, last,
                   opened, written, calls>>

\* The inputs explored for _make_peak_windows.
SampleValues == {-2, 1, 2}
PeakFirstTime == 5
PeakAxisNames == {<<"X">>, <<"X", "Y">>}

PeakDataset ==
    [filename |-> "peak.ide", RecorderSerial |-> 10118, utcStartTime |-> 100,
     firstTime |-> PeakFirstTime]

PeakFacades ==
    {NoAccFacade(PeakFirstTime)} \cup
    UNION { UNION { { Facade(names, rows, PeakFirstTime) :
                         rows \in [1..Len(names) -> [1..n -> SampleValues]] } :
                    n \in 1..MaxLen } :
            names \in PeakAxisNames }

PeakInit ==
    /\ self = SelfInit
    /\ pc = "peaks"
    /\ filenames = << >>
    /\ extracted = << >>
    /\ processed = << >>
    /\ output = << >>
    /\ last = Returned("__init__")
    /\ opened = {}
    /\ written = {}
    /\ calls = NoCalls
    /\ \E analyzer \in PeakFacades, margin_len \in 0..MaxMargin :
          pk = [pcp |-> "start", analyzer |-> analyzer, margin_len |-> margin_len,
                ds |-> PeakDataset,
                data |-> << >>, i_max |-> << >>, result_data |-> << >>, j |-> 0,
                result |-> None]

PeakNext == PeakBegin \/ PeakCopy \/ PeakFormat

PeakSpec == PeakInit /\ [][PeakNext]_vars

\* --------------------------------------------------------- the recordings

\* The recordings the model aggregates: r1 has a two-axis accelerometer, r2 a
\* one-axis accelerometer, r3 no acceleration channel at all.
Files == {"r1", "r2", "r3"}

\* Recordings whose extraction fails: r4 cannot be opened and r5 opens but
\* holds damaged data.
DamagedFiles == {"r4", "r5"}

\* idelib.importFile(filename) raises on a recording it cannot read.
ImportRaises(f) == f = "r4"

\* The places inside the with block at which the extraction of a recording
\* raises: building the Analyzer or running a formatter.
ExtractionFailures(f) == IF f = "r5" THEN {"Analyzer", "formatter"} ELSE {}

\* The extraction of the recording does not return.
Fails(f) == ImportRaises(f) \/ ExtractionFailures(f) # {}

Dataset(f) ==
    CASE f = "r1" -> [filename |-> f, RecorderSerial |-> 10118,
                      utcStartTime |-> 100, firstTime |-> 5]
      [] f = "r2" -> [filename |-> f, RecorderSerial |-> 10118,
                      utcStartTime |-> 200, firstTime |-> 0]
      [] f = "r3" -> [filename |-> f, RecorderSerial |-> 10309,
                      utcStartTime |-> 300, firstTime |-> 7]

\* The derived signals of a recording: (frequencies, one row of values per
\* axis) for the PSD, the PVSS and the VC curves, and the scalar metrics as
\* named series of (axis, value).
Spectra(f) ==
    CASE f = "r1" ->
           [PSDData |-> [f |-> <<1, 2>>, v |-> <<<<2, 4>>, <<6, 2>>>>],
            PVSSData |-> [f |-> <<1, 2>>, v |-> <<<<3, 6>>, <<4, 8>>>>],
            VCCurveData |-> [f |-> <<1>>, v |-> <<<<6>>, <<8>>>>],
            metrics |-> << [name |-> "RMS Acceleration",
                            series |-> <<<<"X", 1>>, <<"Y", 2>>, <<"Resultant", 2>>>>],
                           [name |-> "Average Temperature",
                            series |-> <<<<"Temperature", 25>>>>] >>]
      [] f = "r2" ->
           [PSDData |-> [f |-> <<1>>, v |-> <<<<3>>>>],
            PVSSData |-> [f |-> <<2>>, v |-> <<<<5>>>>],
            VCCurveData |-> [f |-> <<1, 2>>, v |-> <<<<1, 2>>>>],
            metrics |-> << [name |-> "RMS Acceleration",
                            series |-> <<<<"X", 1>>, <<"Resultant", 1>>>>] >>]
      [] f = "r3" ->
           [PSDData |-> None, PVSSData |-> None, VCCurveData |-> None,
            metrics |-> << [name |-> "Average Temperature",
                            series |-> <<<<"Temperature", 20>>>>],
                           [name |-> "Average Pressure",
                            series |-> <<<<"Pressure", 101>>>>] >>]

Analyzer(f) ==
    LET ds == Dataset(f)
    IN  (CASE f = "r1" -> Facade(<<"X", "Y">>, <<<<2, 1, 1>>, <<1, -2, 1>>>>, ds.firstTime)
           [] f = "r2" -> Facade(<<"X">>, <<<<1, 2>>>>, ds.firstTime)
           [] f = "r3" -> NoAccFacade(ds.firstTime))
        @@ Spectra(f)

\* ------------------------------------------------------------ the formatters

RECURSIVE SumColumn(_, _, _)
SumColumn(rows, i, k) ==
    IF k = 0 THEN 0 ELSE rows[k][i] + SumColumn(rows, i, k - 1)

\* df["Resultant"] = np.sum(df.to_numpy(), axis=1)
SumResultant(v) == << >> \o [i \in 1..Len(v[1]) |-> SumColumn(v, i, Len(v))]

\* df["Resultant"] = utils_stats.L2_norm(df.to_numpy(), axis=1)
L2Resultant(v) == Resultant(v)

RECURSIVE SumSeq(_)
SumSeq(q) == IF q = << >> THEN 0 ELSE Head(q) + SumSeq(Tail(q))

\* utils_psd.to_octave(..., mode="mean"): the linear bins pooled by their
\* mean; the model pools them into the one band that starts at fstart.
ToOctave(spectrum, fstart, octave_bins) ==
    [f |-> <<fstart.num>>,
     v |-> [a \in 1..Len(spectrum.v) |->
              << SumSeq(spectrum.v[a]) \div Len(spectrum.v[a]) >>]]

\* DataFrame(v.T, index = frequency, columns = axis) with the Resultant
\* column added, then stack(level="axis").reorder_levels(["axis", "frequency"]):
\* one row per frequency and axis.
SpectrumRows(fs, columns, axes) ==
    << >> \o
    [cell \in 1..(Len(fs) * Len(axes)) |->
        LET i == ((cell - 1) \div Len(axes)) + 1
            a == ((cell - 1) % Len(axes)) + 1
        IN  [idx |-> <<axes[a], fs[i]>>, value |-> columns[a][i]]]

SpectrumNames == <<"axis", "frequency">>

SpectrumTable(analyzer, spectrum, resultant) ==
    [names |-> SpectrumNames,
     rows |-> SpectrumRows(spectrum.f, Append(spectrum.v, resultant),
                           Append(analyzer.axis_names, "Resultant"))]

MakePsd(analyzer, fstart, bins_per_octave) ==
    IF ~analyzer.acc THEN None
    ELSE LET spectrum ==
                 IF bins_per_octave # None
                 THEN ToOctave(analyzer.PSDData,
                               IF fstart = None THEN PyInt(1) ELSE fstart,
                               bins_per_octave)
                 ELSE analyzer.PSDData
         IN  SpectrumTable(analyzer, spectrum, SumResultant(spectrum.v))

MakePvss(analyzer) ==
    IF ~analyzer.acc THEN None
    ELSE SpectrumTable(analyzer, analyzer.PVSSData, L2Resultant(analyzer.PVSSData.v))

MakeVcCurves(analyzer) ==
    IF ~analyzer.acc THEN None
    ELSE SpectrumTable(analyzer, analyzer.VCCurveData,
                       L2Resultant(analyzer.VCCurveData.v))

\* The name of the columns of the frame _make_metrics builds from the
\* analyzer's series, which becomes the second index level of the stack.
MetricsAxisName == "axis"

MetricsNames == <<"calculation", MetricsAxisName>>

RECURSIVE MetricsRows(_)
MetricsRows(series_list) ==
    IF series_list = << >> THEN << >>
    ELSE LET s == Head(series_list)
         IN  [k \in 1..Len(s.series) |->
                 [idx |-> <<s.name, s.series[k][1]>>, value |-> s.series[k][2]]]
             \o MetricsRows(Tail(series_list))

MakeMetrics(analyzer) ==
    [names |-> MetricsNames, rows |-> MetricsRows(analyzer.metrics)]

\* The whole of _make_peak_windows: None without an acceleration channel,
\* "raise" when a slice assignment fails, the stacked table otherwise.
PeakRaise == [tag |-> "raise"]

MakePeakWindows(analyzer, margin_len) ==
    IF ~analyzer.acc THEN None
    ELSE LET data == PeakData(analyzer)
             i_max == << >> \o [c \in 1..Len(data) |-> ArgMaxAbs(data[c])]
             dst(c) == DstSlice(i_max[c], margin_len, Len(data[c]))
             src(c) == SrcSlice(i_max[c], margin_len, Len(data[c]))
             empty == FullNaN(2 * margin_len + 1, Len(data))
             result_data ==
                 << >> \o
                 [c \in 1..Len(data) |-> AssignWindow(empty[c], data[c], dst(c), src(c))]
         IN  IF \E c \in 1..Len(data) : ~CanAssign(dst(c), src(c))
             THEN PeakRaise
             ELSE [names |-> PeakNames,
                   rows |-> StackCells(result_data, PeakAxes(analyzer),
                                       PeakTimes(analyzer, i_max),
                                       margin_len, SamplePeriod)]

\* ---------------------------------------------------------------- _get_data

\* A variant of Format that gives up on every kind when the recording has no
\* acceleration channel.
FormatNothingWithoutAcc(b, output_type, analyzer) ==
    IF ~analyzer.acc THEN None
    ELSE CASE output_type = "psd" ->
                  MakePsd(analyzer, b.psd_freq_start_octave, b.psd_bins_per_octave)
           [] output_type = "pvss" -> MakePvss(analyzer)
           [] output_type = "metrics" -> MakeMetrics(analyzer)
           [] output_type = "peaks" ->
                  MakePeakWindows(analyzer, b.peak_window_margin_len.num)
           [] output_type = "vc_curves" -> MakeVcCurves(analyzer)

\* funcs[output_type](analyzer) with the builder's parameters bound.
Format(b, output_type, analyzer) ==
    CASE output_type = "psd" ->
             MakePsd(analyzer, b.psd_freq_start_octave, b.psd_bins_per_octave)
      [] output_type = "pvss" -> MakePvss(analyzer)
      [] output_type = "metrics" -> MakeMetrics(analyzer)
      [] output_type = "peaks" ->
             MakePeakWindows(analyzer, b.peak_window_margin_len.num)
      [] output_type = "vc_curves" -> MakeVcCurves(analyzer)

\* The dict _get_data returns, as its items in insertion order: "meta", then
\* one entry per queued kind in queue order.
GetData(b, filename) ==
    LET ds == Dataset(filename)
        analyzer == Analyzer(filename)
    IN  << [key |-> "meta", value |-> MakeMeta(ds)] >>
        \o [i \in 1..Len(b.metrics_queue) |->
               [key |-> b.metrics_queue[i],
                value |-> Format(b, b.metrics_queue[i], analyzer)]]

\* ------------------------------------------------------------ aggregate_data

Min(a, b) == IF a < b THEN a ELSE b

\* zip(*(d.values() for d in dicts)): list i holds the i-th value of every
\* dict; there are as many lists as the shortest dict has values, and none
\* when there is no dict.
ZipLen(dicts) ==
    IF dicts = << >> THEN 0
    ELSE CHOOSE m \in 0..Len(dicts[1]) :
            /\ \A n \in 1..Len(dicts) : m <= Len(dicts[n])
            /\ \E n \in 1..Len(dicts) : m = Len(dicts[n])

SeriesList(dicts, i) == [n \in 1..Len(dicts) |-> dicts[n][i].value]

AnyNotNone(series_list) == \E n \in 1..Len(series_list) : series_list[n] # None

FirstNotNone(series_list) ==
    series_list[CHOOSE n \in 1..Len(series_list) :
                    /\ series_list[n] # None
                    /\ \A k \in 1..(n - 1) : series_list[k] = None]

\* pd.concat(objs, keys=keys): the objects that are None are dropped together
\* with their keys, and every row of a kept object is prefixed by its key.
RECURSIVE ConcatRows(_, _, _)
ConcatRows(objs, keys, n) ==
    IF n > Min(Len(objs), Len(keys)) THEN << >>
    ELSE (IF objs[n] = None THEN << >>
          ELSE [k \in 1..Len(objs[n].rows) |->
                   [idx |-> <<keys[n]>> \o objs[n].rows[k].idx,
                    value |-> objs[n].rows[k].value]])
         \o ConcatRows(objs, keys, n + 1)

\* A variant of Concat that drops the None objects before it pairs the
\* objects with the keys.
ConcatCompacted(series_list, keys) ==
    IF AnyNotNone(series_list)
    THEN [names |-> <<"filename">> \o FirstNotNone(series_list).names,
          rows |-> ConcatRows(SelectSeq(series_list, LAMBDA x : x # None), keys, 1)]
    ELSE None

Concat(series_list, keys) ==
    IF AnyNotNone(series_list)
    THEN [names |-> <<"filename">> \o FirstNotNone(series_list).names,
          rows |-> ConcatRows(series_list, keys, 1)]
    ELSE None

\* The distinct elements of a sequence, in order of first appearance.
RECURSIVE Distinct(_)
Distinct(q) ==
    IF q = << >> THEN << >>
    ELSE LET front == Distinct(SubSeq(q, 1, Len(q) - 1))
             x == q[Len(q)]
         IN  IF \E i \in 1..Len(front) : front[i] = x THEN front ELSE Append(front, x)

\* A variant of UnstackRaises for a reshape that accepts duplicated rows.
UnstackNeverRaises(series) == FALSE

\* series.unstack(level=1) raises ValueError when two rows share an index.
UnstackRaises(series) ==
    \E i, j \in 1..Len(series.rows) : i # j /\ series.rows[i].idx = series.rows[j].idx

\* A variant of Unstack whose rows come out in the reverse order.
UnstackReversed(series) ==
    LET forward == Distinct([i \in 1..Len(series.rows) |-> series.rows[i].idx[1]])
        index == << >> \o [r \in 1..Len(forward) |-> forward[Len(forward) + 1 - r]]
        columns == Distinct([i \in 1..Len(series.rows) |-> series.rows[i].idx[2]])
        cell(r, c) ==
            IF \E i \in 1..Len(series.rows) : series.rows[i].idx = <<index[r], columns[c]>>
            THEN series.rows[CHOOSE i \in 1..Len(series.rows) :
                                series.rows[i].idx = <<index[r], columns[c]>>].value
            ELSE NaN
    IN  [index_name |-> series.names[1],
         columns |-> columns,
         index |-> index,
         cells |-> [r \in 1..Len(index) |-> [c \in 1..Len(columns) |-> cell(r, c)]]]

\* series.unstack(level=1): one row per value of level 0, one column per
\* value of level 1 (rows in the order of the keys given to concat).
Unstack(series) ==
    LET index == Distinct([i \in 1..Len(series.rows) |-> series.rows[i].idx[1]])
        columns == Distinct([i \in 1..Len(series.rows) |-> series.rows[i].idx[2]])
        cell(r, c) ==
            IF \E i \in 1..Len(series.rows) : series.rows[i].idx = <<index[r], columns[c]>>
            THEN series.rows[CHOOSE i \in 1..Len(series.rows) :
                                series.rows[i].idx = <<index[r], columns[c]>>].value
            ELSE NaN
    IN  [index_name |-> series.names[1],
         columns |-> columns,
         index |-> index,
         cells |-> [r \in 1..Len(index) |-> [c \in 1..Len(columns) |-> cell(r, c)]]]

HasColumn(frame, name) == \E c \in 1..Len(frame.columns) : frame.columns[c] = name

ColumnOf(frame, name) == CHOOSE c \in 1..Len(frame.columns) : frame.columns[c] = name

\* meta.loc[labels, column].reset_index(drop=True): for every label in turn,
\* the cell of every row of meta carrying that label.
RECURSIVE LocRows(_, _, _)
LocRows(meta, labels, column) ==
    IF labels = << >> THEN << >>
    ELSE LET hits == SelectSeq([r \in 1..Len(meta.index) |-> r],
                               LAMBDA r : meta.index[r] = Head(labels))
         IN  [h \in 1..Len(hits) |-> meta.cells[hits[h]][ColumnOf(meta, column)]]
             \o LocRows(meta, Tail(labels), column)

\* A variant of Loc that looks each filename up once.
LocDistinctLabels(meta, labels, column) == LocRows(meta, Distinct(labels), column)

Loc(meta, labels, column) == LocRows(meta, labels, column)

\* meta.loc raises KeyError for a label meta does not hold.
LocRaises(meta, labels) ==
    \E k \in 1..Len(labels) : \A r \in 1..Len(meta.index) : meta.index[r] # labels[k]

\* df[column] = values: aligned on the row number; a row without a value
\* gets the missing-value sentinel.
Aligned(values, r) == IF r <= Len(values) THEN values[r] ELSE NaN

\* reformat(series): to_frame().T.melt() gives one row per row of the series,
\* its index levels as columns followed by "value"; then the two metadata
\* columns are looked up by the row's filename.
Reformat(series, meta) ==
    IF series = None THEN None
    ELSE LET labels == [r \in 1..Len(series.rows) |-> series.rows[r].idx[1]]
             serial == Loc(meta, labels, "serial number")
             start == Loc(meta, labels, "start time")
         IN  [columns |-> series.names \o <<"value", "serial number", "start time">>,
              rows |-> [r \in 1..Len(series.rows) |->
                          series.rows[r].idx
                          \o <<series.rows[r].value, Aligned(serial, r), Aligned(start, r)>>]]

ReformatRaises(series, meta) ==
    /\ series # None
    /\ \/ ~HasColumn(meta, "serial number")
       \/ ~HasColumn(meta, "start time")
       \/ LocRaises(meta, [r \in 1..Len(series.rows) |-> series.rows[r].idx[1]])

\* A variant of Dataframes that puts meta after the kinds.
DataframesMetaLast(queue, concatenated, meta) ==
    [i \in 1..Min(Len(queue), Len(concatenated) - 1) |->
        [key |-> queue[i], df |-> Reformat(concatenated[i + 1], meta)]]
    \o << [key |-> "meta", df |-> meta] >>

\* dict(meta=meta, **{key: reformat(df) for (key, df) in zip(queue, dfs)})
Dataframes(queue, concatenated, meta) ==
    << [key |-> "meta", df |-> meta] >>
    \o [i \in 1..Min(Len(queue), Len(concatenated) - 1) |->
           [key |-> queue[i], df |-> Reformat(concatenated[i + 1], meta)]]

\* Everything aggregate_data does after the extraction: the concatenation
\* per kind, the unstacking of meta, the join and
\* dict(meta=meta, **{key: reformat(df) for (key, df) in zip(queue, dfs)}).
\* It raises when there is nothing to unpack into meta, when meta is None,
\* when unstack meets a duplicated row or when the join fails.
Aggregation(queue, dicts, keys) ==
    IF ZipLen(dicts) = 0 \/ ~AnyNotNone(SeriesList(dicts, 1))
    THEN [raised |-> TRUE, dataframes |-> << >>]
    ELSE LET concatenated ==
                 << >> \o
                 [i \in 1..ZipLen(dicts) |-> Concat(SeriesList(dicts, i), keys)]
         IN  IF UnstackRaises(concatenated[1])
             THEN [raised |-> TRUE, dataframes |-> << >>]
             ELSE LET meta == Unstack(concatenated[1])
                      kinds == Min(Len(queue), ZipLen(dicts) - 1)
                  IN  IF \E i \in 1..kinds : ReformatRaises(concatenated[i + 1], meta)
                      THEN [raised |-> TRUE, dataframes |-> << >>]
                      ELSE [raised |-> FALSE,
                            dataframes |-> Dataframes(queue, concatenated, meta)]

Running(op) == "running"

FileLists == UNION {[1..n -> Files] : n \in 0..MaxFiles}

AllFileLists == UNION {[1..n -> Files \cup DamagedFiles] : n \in 0..MaxFiles}

\* A variant of the with statement that closes the recording only when the
\* block ends normally.
WithExitOnReturnOnly(open, f, failed) == IF failed THEN open ELSE open \ {f}

\* The end of "with idelib.importFile(filename) as ds": the recording is
\* closed however the block ends.
WithExit(open, f, failed) == open \ {f}

\* A variant of the generator in which a failed _get_data call is skipped.
SkipFailed == "extract"

\* Nothing in aggregate_data catches an exception of a _get_data call: it
\* leaves the generator, the unpacking and aggregate_data itself.
Propagate == "raised"

\* aggregate_data(filenames) is entered: nothing is extracted yet.
aggregate_data(names) ==
    /\ pc = "build"
    /\ pc' = "extract"
    /\ filenames' = names
    /\ extracted' = << >>
    /\ processed' = << >>
    /\ last' = Running("aggregate_data")
    /\ UNCHANGED <<self, output, pk, opened, written, calls>>

\* The next _get_data call of the generator aggregate_data unpacks, up to
\* the entry of its with block: the recording is opened, or importFile raises.
importFile ==
    /\ pc = "extract"
    /\ Len(processed) < Len(filenames)
    /\ LET filename == filenames[Len(processed) + 1]
       IN  /\ processed' = Append(processed, filename)
           /\ IF ImportRaises(filename)
              THEN /\ pc' = Propagate
                   /\ last' = Raised("aggregate_data", "IOError")
                   /\ UNCHANGED opened
              ELSE /\ pc' = "with"
                   /\ opened' = opened \cup {filename}
                   /\ UNCHANGED last
    /\ UNCHANGED <<self, filenames, extracted, output, pk, written, calls>>

\* The with block of the _get_data call and its end: the Analyzer, the meta
\* entry and one formatter per queued kind; the recording is closed when the
\* block is left.
get_data ==
    /\ pc = "with"
    /\ LET filename == processed[Len(processed)]
       IN  \/ /\ \E place \in ExtractionFailures(filename) :
                    last' = Raised("aggregate_data", place)
              /\ pc' = Propagate
              /\ opened' = WithExit(opened, filename, TRUE)
              /\ UNCHANGED extracted
           \/ /\ ExtractionFailures(filename) = {}
              /\ LET data == GetData(self, filename)
                 IN  IF \E i \in 1..Len(data) : data[i].value = PeakRaise
                     THEN /\ pc' = Propagate
                          /\ last' = Raised("aggregate_data", "ValueError")
                          /\ opened' = WithExit(opened, filename, TRUE)
                          /\ UNCHANGED extracted
                     ELSE /\ extracted' = Append(extracted, data)
                          /\ pc' = "extract"
                          /\ opened' = WithExit(opened, filename, FALSE)
                          /\ UNCHANGED last
    /\ UNCHANGED <<self, filenames, processed, output, pk, written, calls>>

\* Everything after the last _get_data call: the concatenation per kind, the
\* unstacking of meta, the join, the OutputStruct.
aggregate ==
    /\ pc = "extract"
    /\ Len(processed) = Len(filenames)
    /\ LET result == Aggregation(self.metrics_queue, extracted, filenames)
       IN  IF result.raised
           THEN /\ pc' = "raised"
                /\ last' = Raised("aggregate_data", "ValueError")
                /\ UNCHANGED output
           ELSE /\ pc' = "done"
                /\ last' = Returned("aggregate_data")
                /\ output' = result.dataframes
    /\ UNCHANGED <<self, filenames, extracted, processed, pk, opened, written, calls>>

\* ------------------------------------------------------------- OutputStruct

\* Where a loop over dataframes.items() ends, given for each item whether
\* its pass raises: at the first item that does, or one past the last.
FirstStop(raises) ==
    IF \E i \in 1..Len(raises) : raises[i]
    THEN CHOOSE i \in 1..Len(raises) :
             /\ raises[i]
             /\ \A k \in 1..(i - 1) : ~raises[k]
    ELSE Len(raises) + 1

\* A file of the output folder: <name>.<ext>, written with or without the
\* table's index.
OutFile(name, ext, index) == [name |-> name, ext |-> ext, index |-> index]

\* df.to_csv(path, index=(k == "meta"))
CsvIndex(k) == k = "meta"

\* df.to_csv on None: AttributeError.
CsvRaises(item) == item.df = None

\* to_csv_folder(folder_path): one to_csv call per item, in order, up to the
\* first one that raises.
to_csv_folder ==
    /\ pc = "done"
    /\ LET stop == FirstStop([i \in 1..Len(output) |-> CsvRaises(output[i])])
       IN  /\ written' = written \cup
                  { OutFile(output[i].key, "csv", CsvIndex(output[i].key)) :
                        i \in 1..(stop - 1) }
           /\ last' = IF stop <= Len(output)
                      THEN Raised("to_csv_folder", "AttributeError")
                      ELSE Returned("to_csv_folder")
    /\ UNCHANGED <<self, pc, filenames, extracted, processed, output, pk, opened, calls>>

\* The kinds to_html_plots passes over without a figure.
NotPlotted == {"meta", "metrics"}

\* What stops the loop of to_html_plots at an item: a key with no branch
\* (RuntimeError), None["peak offset"] (TypeError), px.line given column
\* names but no data frame (ValueError); None when the item is passed over
\* or plotted.
PlotError(item) ==
    CASE item.key \in NotPlotted -> None
      [] item.key = "peaks" ->
             IF item.df = None THEN Str("TypeError") ELSE None
      [] item.key \in {"psd", "pvss", "vc_curves"} ->
             IF item.df = None THEN Str("ValueError") ELSE None
      [] OTHER -> Str("RuntimeError")

PlotRaises(item) == PlotError(item) # None

FolderPaths == {None, Str("out")}

\* to_html_plots(folder_path, show): nothing when neither is given, else one
\* figure per plotted kind, shown (no folder) or written to <kind>.html.
to_html_plots(folder_path, show) ==
    /\ pc = "done"
    /\ IF folder_path = None /\ ~show
       THEN /\ last' = Returned("to_html_plots")
            /\ UNCHANGED written
       ELSE LET stop == FirstStop([i \in 1..Len(output) |-> PlotRaises(output[i])])
                figures == { i \in 1..(stop - 1) : output[i].key \notin NotPlotted }
            IN  /\ written' = written \cup
                       { OutFile(output[i].key,
                                 IF folder_path = None THEN "shown" ELSE "html",
                                 FALSE) : i \in figures }
                /\ last' = IF stop <= Len(output)
                           THEN Raised("to_html_plots", PlotError(output[stop]).s)
                           ELSE Returned("to_html_plots")
    /\ UNCHANGED <<self, pc, filenames, extracted, processed, output, pk, opened, calls>>

Init ==
    /\ self = SelfInit
    /\ pc = "build"
    /\ filenames = << >>
    /\ extracted = << >>
    /\ processed = << >>
    /\ output = << >>
    /\ last = Returned("__init__")
    /\ pk = PkIdle
    /\ opened = {}
    /\ written = {}
    /\ calls = NoCalls

Next ==
    \/ \E a \in PsdArgs :
          add_psd(a.freq_bin_width, a.freq_start_octave, a.bins_per_octave, a.window)
    \/ \E f \in PvssInitFreqs, b \in PvssBinsPerOctave : add_pvss(f, b)
    \/ add_metrics
    \/ \E m \in PeakMargins : add_peaks(m)
    \/ \E f \in VcInitFreqs, b \in VcBinsPerOctave : add_vc_curves(f, b)
    \/ \E names \in FileLists : aggregate_data(names)
    \/ importFile
    \/ get_data
    \/ aggregate

Spec == Init /\ [][Next]_vars

\* The aggregation of recordings of which some cannot be opened or
\* extracted, and the exports of the package it returns, with a builder
\* configured by add_psd, add_metrics and add_peaks.
IoNext ==
    \/ \E a \in PsdArgs :
          add_psd(a.freq_bin_width, a.freq_start_octave, a.bins_per_octave, a.window)
    \/ add_metrics
    \/ \E m \in PeakMargins : add_peaks(m)
    \/ \E names \in AllFileLists : aggregate_data(names)
    \/ importFile
    \/ get_data
    \/ aggregate
    \/ to_csv_folder
    \/ \E folder_path \in FolderPaths, show \in BOOLEAN : to_html_plots(folder_path, show)

IoSpec == Init /\ [][IoNext]_vars

\* The builder's construction followed by an aggregation with the builder as
\* constructed: the state before GetDataBuilder(...) is called.
CtorInit ==
    /\ self = NoBuilder
    /\ pc = "new"
    /\ filenames = << >>
    /\ extracted = << >>
    /\ processed = << >>
    /\ output = << >>
    /\ last = Running("__init__")
    /\ pk = PkIdle
    /\ opened = {}
    /\ written = {}
    /\ calls = NoCalls

CtorNext ==
    \/ \E kwargs \in CtorKwargs : __init__(kwargs)
    \/ \E m \in PeakMargins : add_peaks(m)
    \/ \E names \in FileLists : aggregate_data(names)
    \/ importFile
    \/ get_data
    \/ aggregate

CtorSpec == CtorInit /\ [][CtorNext]_vars

\* ------------------------------------------- properties of the peak windows

PeakRan == pk.pcp \in {"loop", "done"} /\ pk.analyzer.acc

PeakReturned == pk.pcp = "done" /\ pk.analyzer.acc

AxisRows(table, axis) ==
    {i \in 1..Len(table.rows) : table.rows[i].idx[1] = axis}

\* C7: the returned peak-window table has exactly 2m+1 offset rows for every
\* axis (Resultant included), wherever the peak lies, and the row at offset 0
\* of an axis is that axis's maximum-magnitude sample, never the sentinel.
C7_FullWindowEveryAxis ==
    PeakReturned =>
        \A c \in 1..Len(pk.data) :
            LET axis == PeakAxes(pk.analyzer)[c]
                rows == AxisRows(pk.result, axis)
            IN  /\ Cardinality(rows) = 2 * pk.margin_len + 1
                /\ \E i \in rows :
                      /\ pk.result.rows[i].idx[3] = 0
                      /\ pk.result.rows[i].value = pk.data[c][pk.i_max[c] + 1]
                      /\ pk.result.rows[i].value # NaN

\* C8: the slice assignment never raises, source and destination slices have
\* equal length, and once channel c is copied, row k+m of its buffer column is
\* data[c][p+k] when 0 <= p+k <= N-1 and the sentinel otherwise, for every
\* offset k in -m..m.
C8_BoundarySafeCopy ==
    /\ pk.pcp # "raised"
    /\ PeakRan =>
        \A c \in 1..Len(pk.data) :
            LET n == Len(pk.data[c])
                p == pk.i_max[c]
                m == pk.margin_len
            IN  /\ DstSlice(p, m, n).len = SrcSlice(p, m, n).len
                /\ Len(pk.result_data[c]) = 2 * m + 1
                /\ c <= pk.j =>
                      \A k \in (-m)..m :
                          pk.result_data[c][k + m + 1] =
                              IF 0 <= p + k /\ p + k <= n - 1
                              THEN pk.data[c][p + k + 1]
                              ELSE NaN

\* A finished call whose half-width is at least the trace length, with one
\* channel peaking at the first sample and one at the last.
C8_Witness ==
    /\ PeakReturned
    /\ Len(pk.data[1]) >= 2
    /\ pk.margin_len >= Len(pk.data[1])
    /\ \E c \in 1..Len(pk.data) : pk.i_max[c] = 0
    /\ \E c \in 1..Len(pk.data) : pk.i_max[c] = Len(pk.data[c]) - 1

\* C9: every channel is anchored on its own peak: the peak is the first index
\* of largest magnitude on that channel, every row of the axis carries that
\* sample's timestamp relative to the session's first sample (so that the meta
\* start time plus the peak time is the session's UTC start plus the sample's
\* timestamp), and the axis is paired with no other peak time.
C9_OwnPeakPerAxis ==
    PeakReturned =>
        \A c \in 1..Len(pk.data) :
            LET row == pk.data[c]
                p == pk.i_max[c]
                axis == PeakAxes(pk.analyzer)[c]
                rows == AxisRows(pk.result, axis)
            IN  /\ \A k \in 0..(Len(row) - 1) : Abs(row[k + 1]) <= Abs(row[p + 1])
                /\ \A k \in 0..(p - 1) : Abs(row[k + 1]) < Abs(row[p + 1])
                /\ rows # {}
                /\ \A i \in rows :
                      /\ pk.result.rows[i].idx[2] = pk.analyzer.times[p + 1] - pk.ds.firstTime
                      /\ MetaStartTime(pk.ds) + pk.result.rows[i].idx[2] =
                            pk.ds.utcStartTime * MicrosPerSecond + pk.analyzer.times[p + 1]

\* A finished call in which two channels peak at different samples and some
\* channel reaches its largest magnitude more than once.
C9_Witness ==
    /\ PeakReturned
    /\ \E c, d \in 1..Len(pk.data) : pk.i_max[c] # pk.i_max[d]
    /\ \E c \in 1..Len(pk.data) :
          \E k \in (pk.i_max[c] + 1)..(Len(pk.data[c]) - 1) :
              Abs(pk.data[c][k + 1]) = Abs(pk.data[c][pk.i_max[c] + 1])

\* ------------------------------------------------ properties of the pipeline

Returns == pc = "done"

Keys(dataframes) == [i \in 1..Len(dataframes) |-> dataframes[i].key]

\* The per-recording result of the i-th queued kind for the n-th recording.
Extracted(n, i) == extracted[n][i + 1].value

NoDuplicates(q) == \A i, j \in 1..Len(q) : q[i] = q[j] => i = j

\* C1: whenever aggregate_data returns, the keys of the package, in order,
\* are "meta" followed by the queued kinds in queue order.
C1_KeyOrder ==
    Returns =>
        /\ Keys(output)[1] = "meta"
        /\ Tail(Keys(output)) = self.metrics_queue

\* A package for a queue of at least three kinds.
C1_Witness == Returns /\ Len(self.metrics_queue) >= 3 /\ Len(output) >= 4

\* The index levels the claim gives for each kind.
ClaimedLevels(kind) ==
    CASE kind \in {"psd", "pvss", "vc_curves"} -> <<"axis", "frequency">>
      [] kind = "metrics" -> <<"calculation", "axis">>
      [] kind = "peaks" -> <<"axis", "peak time", "peak offset">>

\* C2: in every returned package the meta table is indexed by "filename"
\* with the columns "serial number", "start time", and every present table
\* has the columns "filename", its kind's index levels, "value",
\* "serial number", "start time".
C2_ColumnOrder ==
    Returns =>
        /\ output[1].df.index_name = "filename"
        /\ output[1].df.columns = <<"serial number", "start time">>
        /\ \A i \in 2..Len(output) :
              output[i].df # None =>
                  output[i].df.columns =
                      <<"filename">> \o ClaimedLevels(output[i].key)
                      \o <<"value", "serial number", "start time">>

\* A package in which all five kinds are present.
C2_Witness ==
    /\ Returns
    /\ Len(output) = 6
    /\ \A i \in 2..6 : output[i].df # None

\* C3: whenever aggregate_data returns for N recordings, the meta table has
\* N rows, and for every input recording a row under its filename with that
\* recording's serial number and start time.
C3_MetaRows ==
    Returns =>
        LET meta == output[1].df
        IN  /\ Len(meta.index) = Len(filenames)
            /\ Len(meta.cells) = Len(filenames)
            /\ \A n \in 1..Len(filenames) :
                  \E r \in 1..Len(meta.index) :
                      /\ meta.index[r] = filenames[n]
                      /\ meta.cells[r] =
                            << Dataset(filenames[n]).RecorderSerial,
                               Dataset(filenames[n]).utcStartTime * MicrosPerSecond
                               + Dataset(filenames[n]).firstTime >>

\* A package for two recordings and an empty queue.
C3_Witness == Returns /\ Len(filenames) = 2 /\ self.metrics_queue = << >>

RECURSIVE RowsTotal(_, _)
RowsTotal(i, n) ==
    IF n = 0 THEN 0
    ELSE (IF Extracted(n, i) = None THEN 0 ELSE Len(Extracted(n, i).rows))
         + RowsTotal(i, n - 1)

\* C4: the aggregated table of a kind has as many rows as the per-recording
\* tables of that kind have together, and every row carries the serial number
\* and start time of the recording its filename names.
C4_RowsAndJoin ==
    Returns =>
        \A i \in 1..Len(self.metrics_queue) :
            LET df == output[i + 1].df
            IN  df # None =>
                  /\ Len(df.rows) = RowsTotal(i, Len(extracted))
                  /\ \A r \in 1..Len(df.rows) :
                        LET row == df.rows[r]
                            ds == Dataset(row[1])
                        IN  /\ row[Len(row) - 1] = ds.RecorderSerial
                            /\ row[Len(row)] =
                                  ds.utcStartTime * MicrosPerSecond + ds.firstTime

\* A package in which two recordings with different metadata contribute
\* different numbers of rows to one kind.
C4_Witness ==
    /\ Returns
    /\ Len(filenames) = 2
    /\ \E i \in 1..Len(self.metrics_queue) :
          /\ Extracted(1, i) # None
          /\ Extracted(2, i) # None
          /\ Len(Extracted(1, i).rows) # Len(Extracted(2, i).rows)
          /\ Dataset(filenames[1]).RecorderSerial # Dataset(filenames[2]).RecorderSerial

\* C5: for every queued kind the recordings in the aggregated table are
\* exactly those whose result for the kind is present, every row is a row of
\* the recording it names, a kind no recording has a result for is in the
\* package as None, and a missing result never makes aggregate_data raise
\* (it raises only for an empty list or a repeated identifier).
C5_MissingResultsSkipped ==
    /\ Returns =>
        \A i \in 1..Len(self.metrics_queue) :
            LET df == output[i + 1].df
                present == {n \in 1..Len(filenames) : Extracted(n, i) # None}
            IN  /\ output[i + 1].key = self.metrics_queue[i]
                /\ (present = {}) <=> (df = None)
                /\ df # None =>
                      /\ {df.rows[r][1] : r \in 1..Len(df.rows)}
                            = {filenames[n] : n \in present}
                      /\ \A r \in 1..Len(df.rows) :
                            \E n \in present :
                                /\ filenames[n] = df.rows[r][1]
                                /\ \E k \in 1..Len(Extracted(n, i).rows) :
                                      df.rows[r] =
                                          <<filenames[n]>> \o Extracted(n, i).rows[k].idx
                                          \o << Extracted(n, i).rows[k].value,
                                                Dataset(filenames[n]).RecorderSerial,
                                                MetaStartTime(Dataset(filenames[n])) >>
    /\ pc = "raised" =>
          \/ filenames = << >>
          \/ ~NoDuplicates(filenames)
          \/ \E n \in 1..Len(filenames) : Fails(filenames[n])

\* A package in which a recording without a result comes before one with a
\* result for the same kind.
C5_Witness ==
    /\ Returns
    /\ Len(filenames) = 2
    /\ \E i \in 1..Len(self.metrics_queue) :
          Extracted(1, i) = None /\ Extracted(2, i) # None

Position(q, x) == CHOOSE n \in 1..Len(q) : q[n] = x

\* C6: recordings are extracted in the order of the identifier list, and in
\* the meta table and in every aggregated table the recordings appear in that
\* order, the rows of one recording next to each other.
C6_InputOrder ==
    /\ pc \in {"extract", "done"} =>
          /\ Len(processed) <= Len(filenames)
          /\ processed = SubSeq(filenames, 1, Len(processed))
          /\ Len(extracted) = Len(processed)
          /\ \A n \in 1..Len(extracted) :
                extracted[n][1].value = MakeMeta(Dataset(filenames[n]))
    /\ Returns =>
          /\ output[1].df.index = filenames
          /\ \A i \in 2..Len(output) :
                output[i].df # None =>
                    \A a, b \in 1..Len(output[i].df.rows) :
                        a < b =>
                            Position(filenames, output[i].df.rows[a][1])
                              <= Position(filenames, output[i].df.rows[b][1])

\* A package for two recordings that both have rows in some table.
C6_Witness ==
    /\ Returns
    /\ filenames = <<"r2", "r1">>
    /\ \E i \in 2..Len(output) :
          /\ output[i].df # None
          /\ \E a, b \in 1..Len(output[i].df.rows) :
                output[i].df.rows[a][1] # output[i].df.rows[b][1]

AddsVcCurves == \E f \in VcInitFreqs, b \in VcBinsPerOctave : add_vc_curves(f, b)

\* C10: add_vc_curves sets the spectrum bin width to 0.2 and the window to
\* "hanning" when "psd" is not queued and leaves every spectrum parameter
\* alone when it is; add_metrics sets the shock-spectrum initial frequency to
\* 1 and density to 12 when "pvss" is not queued and leaves them alone when
\* it is.
C10_DefaultSeeding ==
    [][ /\ (AddsVcCurves /\ ~InQueue(self.metrics_queue, "psd")) =>
              /\ self'.psd_freq_bin_width = Num(1, 5)
              /\ self'.psd_window = Str("hanning")
        /\ (AddsVcCurves /\ InQueue(self.metrics_queue, "psd")) =>
              /\ self'.psd_freq_bin_width = self.psd_freq_bin_width
              /\ self'.psd_freq_start_octave = self.psd_freq_start_octave
              /\ self'.psd_bins_per_octave = self.psd_bins_per_octave
              /\ self'.psd_window = self.psd_window
        /\ (add_metrics /\ ~InQueue(self.metrics_queue, "pvss")) =>
              /\ self'.pvss_init_freq = PyInt(1)
              /\ self'.pvss_bins_per_octave = PyInt(12)
        /\ (add_metrics /\ InQueue(self.metrics_queue, "pvss")) =>
              /\ self'.pvss_init_freq = self.pvss_init_freq
              /\ self'.pvss_bins_per_octave = self.pvss_bins_per_octave
      ]_vars

\* A builder on which add_psd came before add_vc_curves and kept its own
\* width and window, and on which add_metrics seeded the shock spectrum.
C10_Witness ==
    /\ self.metrics_queue = <<"psd", "vc_curves", "metrics">>
    /\ self.psd_freq_bin_width = PyInt(1)
    /\ self.psd_window = Str("boxcar")
    /\ self.pvss_init_freq = PyInt(1)
    /\ self.pvss_bins_per_octave = PyInt(12)

\* ------------------------------------------- properties of the constructor

Given(x) == x # None

\* Both bounds of one edge of the acceleration window are given.
SameEdgeTwice(kwargs) ==
    \/ Given(kwargs.accel_start_time) /\ Given(kwargs.accel_start_margin)
    \/ Given(kwargs.accel_end_time) /\ Given(kwargs.accel_end_margin)

\* C11: GetDataBuilder(...) raises ValueError exactly when both bounds of the
\* start edge or both bounds of the end edge are given; a call that raises
\* leaves no builder, and without a builder no recording is ever opened; a
\* call that returns leaves a builder that holds the bounds as given.
C11_ConstructorValidation ==
    /\ [][ \A kwargs \in CtorKwargs :
              __init__(kwargs) =>
                  /\ SameEdgeTwice(kwargs) <=> (pc' = "raised" /\ last' = "ValueError")
                  /\ SameEdgeTwice(kwargs) => self' = NoBuilder
                  /\ ~SameEdgeTwice(kwargs) =>
                        /\ pc' = "build"
                        /\ self'.analyzer_kwargs = kwargs
                        /\ self'.metrics_queue = << >> ]_vars
    /\ [](self = NoBuilder => (opened = {} /\ processed = << >> /\ output = << >>))
    /\ [][self = NoBuilder /\ pc = "raised" => UNCHANGED vars]_vars

\* The constructor has raised.
C11_Witness == pc = "raised" /\ self = NoBuilder /\ last = "ValueError"

\* ----------------------------------------------- properties of the builder

AddsPsd(a) ==
    add_psd(a.freq_bin_width, a.freq_start_octave, a.bins_per_octave, a.window)

\* C12: add_psd given neither a bin width nor an octave density raises
\* ValueError and changes nothing of the builder: neither the queue nor any
\* parameter, seeded or set by an earlier call.
C12_FailedAddPsdHasNoEffect ==
    [][ \A a \in PsdArgs :
           (AddsPsd(a) /\ a.freq_bin_width = None /\ a.bins_per_octave = None) =>
               /\ last' = "ValueError"
               /\ self' = self
               /\ pc' = "build" ]_vars

\* add_psd has raised on a builder whose spectrum parameters add_vc_curves
\* had seeded.
C12_Witness ==
    /\ pc = "build"
    /\ last = "ValueError"
    /\ ~InQueue(self.metrics_queue, "psd")
    /\ InQueue(self.metrics_queue, "vc_curves")
    /\ self.psd_freq_bin_width = Num(1, 5)

\* ------------------------------------------- properties of the extraction

\* The extraction of the n-th recording is the dict of "meta" and of the
\* queued kinds, in queue order.
EntryPerKind(n) ==
    /\ Len(extracted[n]) = Len(self.metrics_queue) + 1
    /\ extracted[n][1].key = "meta"
    /\ \A i \in 1..Len(self.metrics_queue) :
          extracted[n][i + 1].key = self.metrics_queue[i]

\* A raise during the extraction comes from a recording that cannot be read,
\* never from a missing channel.
RaisesOnlyOnFailure ==
    (pc = "raised" /\ Len(processed) > Len(extracted)) =>
        Fails(processed[Len(processed)])

\* C13 as stated: without an acceleration channel the queued kinds psd, peaks
\* and vc_curves are None and every other queued kind (pvss, metrics) and
\* meta are produced.
C13_OnlyThreeKindsMissing ==
    \A n \in 1..Len(extracted) :
        ~Analyzer(processed[n]).acc =>
            /\ EntryPerKind(n)
            /\ extracted[n][1].value # None
            /\ \A i \in 1..Len(self.metrics_queue) :
                  Extracted(n, i) = None
                      <=> self.metrics_queue[i] \in {"psd", "peaks", "vc_curves"}

\* C13, amended: the extraction of a recording without an acceleration
\* channel does not raise; its queued kinds psd, pvss, peaks and vc_curves are
\* None, its metrics and its meta entry are produced, and every extraction
\* result has one entry for "meta" and one per queued kind.
C13_MissingChannelNotFatal ==
    /\ RaisesOnlyOnFailure
    /\ \A n \in 1..Len(extracted) :
          /\ EntryPerKind(n)
          /\ ~Analyzer(processed[n]).acc =>
                /\ extracted[n][1].value = MakeMeta(Dataset(processed[n]))
                /\ \A i \in 1..Len(self.metrics_queue) :
                      IF self.metrics_queue[i] = "metrics"
                      THEN /\ Extracted(n, i) # None
                           /\ Extracted(n, i).rows # << >>
                      ELSE Extracted(n, i) = None

\* A recording without an acceleration channel has been extracted with all
\* five kinds queued.
C13_Witness ==
    /\ \E n \in 1..Len(extracted) : ~Analyzer(processed[n]).acc
    /\ Len(self.metrics_queue) = 5

\* ---------------------------------------------- properties of the exports

CsvWritten == {f \in written : f.ext = "csv"}

\* C14: once to_csv_folder has run on a package, the folder holds exactly one
\* delimited file per key of the package, named after the key, the one of
\* "meta" written with its index and every other one without.
C14_OneCsvPerKey ==
    (pc = "done" /\ CsvWritten # {}) =>
        CsvWritten =
            { OutFile(output[i].key, "csv", output[i].key = "meta") :
                  i \in 1..Len(output) }

HtmlWritten(files) == {f \in files : f.ext = "html"}

PackageKeys == {output[i].key : i \in 1..Len(output)}

\* C15: to_html_plots with an output folder returns with one plot file for
\* each key of the package among psd, pvss, peaks and vc_curves and none for
\* meta and metrics; it raises for a key outside these six kinds; with
\* neither a folder nor show it returns and produces nothing.
C15_OnePlotPerPlottedKind ==
    [][ \A folder_path \in FolderPaths, show \in BOOLEAN :
           to_html_plots(folder_path, show) =>
               /\ (folder_path # None /\ PackageKeys \subseteq Kinds \cup {"meta"}) =>
                     /\ last' = "returned"
                     /\ HtmlWritten(written') =
                            { OutFile(k, "html", FALSE) :
                                  k \in PackageKeys \cap
                                        {"psd", "pvss", "peaks", "vc_curves"} }
               /\ ~(PackageKeys \subseteq Kinds \cup {"meta"}) => last' # "returned"
               /\ (folder_path = None /\ ~show) =>
                     (last' = "returned" /\ written' = written) ]_vars

\* ------------------------------------------------ properties of the queue

Queued == {self.metrics_queue[i] : i \in 1..Len(self.metrics_queue)}

\* The step puts kind k into the queue: at the end when it is new, nowhere
\* when it is queued already; the kinds queued before keep their places.
Enqueues(k) ==
    IF k \in Queued
    THEN self'.metrics_queue = self.metrics_queue
    ELSE self'.metrics_queue = Append(self.metrics_queue, k)

\* C16: the queue holds, without duplicates, exactly the kinds whose add has
\* returned, in the order of their first add: a returning add puts its own
\* kind last when it is new and leaves the queue alone when it is not, sets
\* the kind's parameters to the new arguments, and never queues another kind;
\* an add that raises leaves the queue alone.
C16_QueueOrder ==
    /\ [](/\ NoDuplicates(self.metrics_queue)
          /\ Queued = {k \in Kinds : calls[k] # None})
    /\ [][ /\ \A a \in PsdArgs :
                AddsPsd(a) =>
                    IF a.freq_bin_width = None /\ a.bins_per_octave = None
                    THEN self'.metrics_queue = self.metrics_queue
                    ELSE /\ Enqueues("psd")
                         /\ self'.psd_bins_per_octave = a.bins_per_octave
                         /\ self'.psd_window = a.window
                         /\ a.freq_bin_width # None =>
                                self'.psd_freq_bin_width = a.freq_bin_width
           /\ \A f \in PvssInitFreqs, b \in PvssBinsPerOctave :
                add_pvss(f, b) =>
                    /\ Enqueues("pvss")
                    /\ self'.pvss_init_freq = f
                    /\ self'.pvss_bins_per_octave = b
           /\ add_metrics => Enqueues("metrics")
           /\ \A m \in PeakMargins :
                add_peaks(m) =>
                    /\ Enqueues("peaks")
                    /\ self'.peak_window_margin_len = m
           /\ \A f \in VcInitFreqs, b \in VcBinsPerOctave :
                add_vc_curves(f, b) =>
                    /\ Enqueues("vc_curves")
                    /\ self'.vc_init_freq = f
                    /\ self'.vc_bins_per_octave = b ]_vars

\* The two seeding kinds were added first and their dependees later: the
\* dependees stand where their own add put them.
C16_Witness ==
    /\ pc = "build"
    /\ self.metrics_queue = <<"metrics", "vc_curves", "pvss", "peaks", "psd">>
    /\ self.peak_window_margin_len = PyInt(1)

Set(x) == x # None

\* C17: every queued kind has the parameters its extraction reads.
C17_ParametersPopulated ==
    /\ "psd" \in Queued =>
          Set(self.psd_freq_bin_width) /\ Set(self.psd_window)
    /\ "pvss" \in Queued =>
          Set(self.pvss_init_freq) /\ Set(self.pvss_bins_per_octave)
    /\ "metrics" \in Queued =>
          Set(self.pvss_init_freq) /\ Set(self.pvss_bins_per_octave)
    /\ "peaks" \in Queued => Set(self.peak_window_margin_len)
    /\ "vc_curves" \in Queued =>
          /\ Set(self.vc_init_freq) /\ Set(self.vc_bins_per_octave)
          /\ Set(self.psd_freq_bin_width)

\* Only the two seeding kinds are queued: the dependees' parameters are the
\* seeded defaults.
C17_Witness ==
    /\ Queued = {"metrics", "vc_curves"}
    /\ self.pvss_init_freq = PyInt(1)
    /\ self.psd_freq_bin_width = Num(1, 5)
    /\ pc = "extract"

\* The parameter values a set of calls leaves, whatever their order: those
\* of the kind's own add when there is one, else the defaults its dependent
\* kind seeds when that one was added, else None.
Canonical(c) ==
    [ psd_freq_bin_width |->
          IF c.psd # None
          THEN PsdBinWidth(c.psd.freq_bin_width, c.psd.freq_start_octave,
                           c.psd.bins_per_octave)
          ELSE IF c.vc_curves # None THEN Num(1, 5) ELSE None,
      psd_freq_start_octave |->
          IF c.psd # None
          THEN PsdStartOctave(c.psd.freq_bin_width, c.psd.freq_start_octave)
          ELSE None,
      psd_bins_per_octave |-> IF c.psd # None THEN c.psd.bins_per_octave ELSE None,
      psd_window |->
          IF c.psd # None THEN c.psd.window
          ELSE IF c.vc_curves # None THEN Str("hanning") ELSE None,
      pvss_init_freq |->
          IF c.pvss # None THEN c.pvss.init_freq
          ELSE IF c.metrics # None THEN PyInt(1) ELSE None,
      pvss_bins_per_octave |->
          IF c.pvss # None THEN c.pvss.bins_per_octave
          ELSE IF c.metrics # None THEN PyInt(12) ELSE None,
      peak_window_margin_len |-> IF c.peaks # None THEN c.peaks.margin_len ELSE None,
      vc_init_freq |-> IF c.vc_curves # None THEN c.vc_curves.init_freq ELSE None,
      vc_bins_per_octave |->
          IF c.vc_curves # None THEN c.vc_curves.bins_per_octave ELSE None ]

Parameters(b) ==
    [ psd_freq_bin_width |-> b.psd_freq_bin_width,
      psd_freq_start_octave |-> b.psd_freq_start_octave,
      psd_bins_per_octave |-> b.psd_bins_per_octave,
      psd_window |-> b.psd_window,
      pvss_init_freq |-> b.pvss_init_freq,
      pvss_bins_per_octave |-> b.pvss_bins_per_octave,
      peak_window_margin_len |-> b.peak_window_margin_len,
      vc_init_freq |-> b.vc_init_freq,
      vc_bins_per_octave |-> b.vc_bins_per_octave ]

\* C20: the parameter values of the builder are a function of the calls that
\* returned (per kind, the arguments of its add) and not of their order: an
\* explicit add_psd or add_pvss decides the kind's parameters whether it
\* comes before or after the add that seeds its defaults.
C20_OrderIndependentParameters == Parameters(self) = Canonical(calls)

\* The explicit adds came after the adds that seed their defaults, and their
\* arguments stand.
C20_Witness ==
    /\ self.metrics_queue = <<"vc_curves", "metrics", "psd", "pvss">>
    /\ self.psd_freq_bin_width = PyInt(1)
    /\ self.psd_window = Str("boxcar")
    /\ self.pvss_init_freq = PyInt(2)

\* ------------------------------------- properties of the recordings' scope

\* C18: a recording is open only inside the with block of its own _get_data
\* call: at most one recording is open at any time, and none between two
\* calls, in the aggregation step, or once aggregate_data has returned or
\* raised, whether the block ended normally or by an exception.
C18_ScopedAcquisition ==
    /\ Cardinality(opened) <= 1
    /\ pc = "with" => opened = {processed[Len(processed)]}
    /\ pc # "with" => opened = {}

\* The with block of the second recording was left by an exception, after
\* the first recording had been extracted and closed.
C18_Witness ==
    /\ pc = "raised"
    /\ Len(extracted) = 1
    /\ last \in {"Analyzer", "formatter"}
    /\ opened = {}

\* C19: a recording whose opening or extraction fails ends aggregate_data
\* with that error: it is the last recording touched, nothing is extracted or
\* aggregated after it, no package exists then or later, and a package that
\* is returned names no recording whose extraction failed.
C19_FailureAborts ==
    /\ [](\A n \in 1..Len(processed) :
             Fails(processed[n]) =>
                 /\ n = Len(processed)
                 /\ pc \in {"with", "raised"}
                 /\ pc = "with" => ~ImportRaises(processed[n])
                 /\ pc = "raised" =>
                        last \in {"IOError"} \cup ExtractionFailures(processed[n])
                 /\ Len(extracted) = n - 1
                 /\ output = << >>)
    /\ [](Returns =>
             /\ \A n \in 1..Len(filenames) : ~Fails(filenames[n])
             /\ output[1].df.index = filenames)
    /\ [][pc = "raised" => (pc' = "raised" /\ output' = output)]_vars

\* The second recording could not be opened after the first had been
\* extracted.
C19_Witness ==
    /\ pc = "raised"
    /\ last = "IOError"
    /\ Len(extracted) = 1
    /\ output = << >>

====
